---- MODULE Spec2Model ----
(***************************************************************************)
(* A model of pem's Executor (src/pem/core/executor.py): the module-level  *)
(* SEMAPHORE, the supervision of one child per _run_command call with the  *)
(* terminate/kill escalation, the command builders and the project         *)
(* environment preparation, and execute() turning every outcome into a     *)
(* result.                                                                 *)
(*                                                                         *)
(* One atomic action is the code an execution runs between two suspension  *)
(* points of the event loop.  Child processes and the file system are the  *)
(* environment: a child exits, writes output or creates the project's      *)
(* .venv at any moment while it is alive.  The only thing assumed of the   *)
(* `uv` tool is that `uv sync` and `uv venv` exit 0 only once .venv and    *)
(* .venv/bin/python exist, and that nothing removes them again.            *)
(*                                                                         *)
(* The `show` and `update` commands of the CLI (src/pem/cli.py) have a      *)
(* specification of their own, CliSpec, over the jobs table.               *)
(***************************************************************************)
EXTENDS Integers, Sequences, FiniteSets, TLC

\* ------------------------------------------------------------------ bounds
\* number of execute() calls in the model
NumExec == 2
\* config["max_concurrent_processes"]: capacity of SEMAPHORE
MAX_CONCURRENT_PROCESSES == 1
\* config["process_timeout"], in clock ticks
PROCESS_TIMEOUT == 1
\* the last second in which an Executor is constructed
MaxSecond == 1
\* the latest reading of the wall clock
MaxWall == 2
\* the most rows the jobs table has
MaxJobs == 2
\* the most CLI commands given in a row
MaxCommands == 1

\* ------------------------------------------------- constants of the program
\* executor.py:69  wait_for(process.wait(), timeout=10)
GRACE == 10
\* executor.py:73, 78, 170, 207: the value returned when the executor gives up
SENTINEL == 0 - 1

Execs == 1..NumExec
NoneVal == "None"
\* None where the code holds an integer (returncode, exit_code)
NoCode == 1000

\* signal numbers (signal.SIGHUP, SIGKILL, SIGTERM)
SIGHUP == 1
SIGKILL == 9
SIGTERM == 15

\* --------------------------------------------------------------- job inputs
PythonVersions == {NoneVal, "3.12"}
DefaultPythonVersions == {"3.13"}
\* declared order and duplicates show in the second list
DependencyLists == {<<>>, <<"b", "a", "a">>}
ScriptPath == "hello.py"
ProjectPath == "proj"
\* Path(project_path).name
ProjectName == "proj"
\* self.project_path / ".venv" / "bin" / "python"
VenvPython == "proj/.venv/bin/python"

\* Job.name: the registry keeps names unique, the model numbers the jobs
JobNames == 1..NumExec

ScriptJobs ==
    [job_type : {"script"}, path : {ScriptPath}, name : JobNames,
     python_version : PythonVersions, dependencies : DependencyLists]

ProjectJobs ==
    [job_type : {"project"}, path : {ProjectPath}, name : JobNames,
     python_version : PythonVersions, dependencies : {<<>>}]

Jobs == ScriptJobs \cup ProjectJobs

\* a job whose job_type is none of the two kinds the executor knows
UnknownJobs ==
    [job_type : {"batch"}, path : {ScriptPath}, name : JobNames,
     python_version : {NoneVal}, dependencies : {<<>>}]

\* lines 37-47 and 197-203: the kinds `match` and the dispatch have a case for
KnownKindAny(job_type) == TRUE

KnownKind(job_type) == job_type \in {"script", "project"}

\* line 34: strftime('%Y%m%d_%H%M%S') of the moment of construction, in seconds
Seconds == 0..MaxSecond

\* line 34: f"{name}_{stamp}.log" under the logs directory
LogPathOf(name, stamp) == <<name, stamp>>

\* what the project path looks like on disk: a file, or a directory with any
\* combination of manifests; the entry files come in every combination where
\* they alone decide the command (no manifest), else main.py or none of them
ProjectDirs ==
    { d \in [is_file : BOOLEAN, pyproject : BOOLEAN, requirements : BOOLEAN,
             main : BOOLEAN, app : BOOLEAN, dunder_main : BOOLEAN] :
        /\ d.is_file => (~d.pyproject /\ ~d.requirements /\ ~d.main
                         /\ ~d.app /\ ~d.dunder_main)
        /\ (d.pyproject \/ d.requirements) => (~d.app /\ ~d.dunder_main) }

\* ------------------------------------------------------------ pure builders
\* Executor.__init__: self.job.python_version or default_python_version
EffectivePython(job_version, default_version) ==
    IF job_version # NoneVal THEN job_version ELSE default_version

\* lines 92-93: one "--with", dep pair per declared dependency, in order
RECURSIVE WithArgsReversed(_)
WithArgsReversed(deps) ==
    IF deps = <<>> THEN <<>>
    ELSE WithArgsReversed(Tail(deps)) \o <<"--with", Head(deps)>>

RECURSIVE WithArgs(_)
WithArgs(deps) ==
    IF deps = <<>> THEN <<>>
    ELSE <<"--with", Head(deps)>> \o WithArgs(Tail(deps))

PythonArgs(python) ==
    IF python # NoneVal THEN <<"--python", python>> ELSE <<>>

\* Executor._build_uv_run_command
BuildUvRunCommand(args, no_project, python) ==
    <<"uv", "run">>
      \o (IF no_project THEN <<"--no-project">> ELSE <<>>)
      \o PythonArgs(python)
      \o args

\* Executor._execute_script_path: the command it hands to _run_command
ScriptPathCommandManaged(python_version, script_path, dependencies) ==
    <<"uv", "run">>
      \o PythonArgs(python_version)
      \o WithArgs(dependencies)
      \o <<script_path>>

ScriptPathCommand(python_version, script_path, dependencies) ==
    <<"uv", "run", "--no-project">>
      \o PythonArgs(python_version)
      \o WithArgs(dependencies)
      \o <<script_path>>

\* Executor._project_entry_command
ProjectEntryCommandAppFirst(d) ==
    IF d.app THEN <<"python", "app.py">>
    ELSE IF d.main THEN <<"python", "main.py">>
    ELSE <<"python", "-m", ProjectName>>

ProjectEntryCommand(d) ==
    IF d.main THEN <<"python", "main.py">>
    ELSE IF d.app THEN <<"python", "app.py">>
    ELSE IF d.dunder_main THEN <<"python", "-m", ProjectName>>
    ELSE <<"python", "-m", ProjectName>>

SyncCommand(python_version) == <<"uv", "sync">> \o PythonArgs(python_version)

VenvCommand(python_version) == <<"uv", "venv">> \o PythonArgs(python_version)

InstallCommand ==
    <<"uv", "pip", "install", "-r", "requirements.txt", "--python", VenvPython>>

\* the part of _execute_project after the environment is ensured (172-177)
ProjectRunCommandByVersion(d, has_requirements, venv_python_exists, python_version) ==
    BuildUvRunCommand(ProjectEntryCommand(d), has_requirements, python_version)

ProjectRunCommand(d, has_requirements, venv_python_exists, python_version) ==
    IF has_requirements
    THEN BuildUvRunCommand(ProjectEntryCommand(d), TRUE,
                           IF venv_python_exists THEN VenvPython ELSE NoneVal)
    ELSE BuildUvRunCommand(ProjectEntryCommand(d), FALSE, python_version)

\* the part of _execute_project for a directory without any manifest (159-167)
BareProjectCommand(d, python_version) ==
    LET entry_command == ProjectEntryCommand(d) IN
    IF SubSeq(entry_command, 1, 2) = <<"python", "-m">>
    THEN BuildUvRunCommand(entry_command, TRUE, python_version)
    ELSE ScriptPathCommand(python_version,
                           ProjectPath \o "/" \o entry_command[Len(entry_command)],
                           <<>>)

Contains(seq, x) == \E i \in 1..Len(seq) : seq[i] = x


\* -------------------------------------------------------------------- state
VARIABLES
    job,                    \* Executor.job of each execute() call
    executor,               \* what __init__ fixed: the kind it matched, log_path
    default_python_version, \* app_config.default_python_version
    project_dir,            \* what lies at the project path (never changes)
    venv,                   \* [dir, python]: do .venv and .venv/bin/python exist
    sem_value,              \* SEMAPHORE._value: the free slots
    waiters,                \* SEMAPHORE._waiters, in arrival order
    pc,                     \* where each execute() call is suspended
    step,                   \* which _run_command call of the pipeline is open
    ctx,                    \* has_pyproject, has_requirements of _execute_project
    command,                \* argv and cwd of the open _run_command call
    child,                  \* the process of the open _run_command call
    signals,                \* signals sent to that process, in order
    clock,                  \* ticks the current wait_for has been waiting
    ret,                    \* value the open _run_command call returns
    how,                    \* the exit path of the open or the last _run_command call
    spawned,                \* every command this execution has spawned
    log_file,               \* what is in the execution's log file
    log_buf,                \* written through the handle, not yet flushed
    exc,                    \* exception in flight inside execute()
    exit_code,              \* exit_code of execute()
    result,                 \* what execute() returned
    intervened,             \* the executor itself produced the exit code
    env_at_start,           \* did the project's environment exist at the start
    completed,              \* preparation steps of the project that ended with 0
    registry,               \* the rows of the jobs table
    cli_call,               \* the last command line given to the CLI
    echoed                  \* what that command printed

vars == <<job, executor, default_python_version, project_dir, venv, sem_value, waiters,
          pc, step, ctx, command, child, signals, clock, ret, how, spawned,
          log_file, log_buf, exc, exit_code, result, intervened, env_at_start,
          completed, registry, cli_call, echoed>>

NoChild == [state |-> "none", returncode |-> NoCode]
NoResult == [status |-> NoneVal, exit_code |-> NoCode, start_time |-> NoCode,
             end_time |-> NoCode, duration |-> NoCode]
NoCommand == [argv |-> <<>>, cwd |-> NoneVal]

\* Executor.__init__ line 35
PythonVersionOf(e) == EffectivePython(job[e].python_version, default_python_version)

\* the first execution runs any job; the others run a script or the project
\* with nothing optional set
PlainJobs == {j \in Jobs : j.python_version = NoneVal /\ j.dependencies = <<>>}

\* what a job is, apart from its name
Settings(j) == <<j.job_type, j.path, j.python_version, j.dependencies>>

\* the executions of the same job that were constructed before execution e
EarlierOfSameJob(e) == {x \in 1..(e - 1) : job[x].name = job[e].name}

\* the jobs, their Executors and the disk.  Jobs are numbered in the order of
\* their first execution.  The first Executor is built in second 0, another
\* one of the same job in any second (its log_path is the same when it is the
\* same Executor or one built within the same second).  The job of the first
\* execution may be of an unknown kind, from the start or since its Executor
\* was constructed.
Inputs ==
    /\ job \in [Execs -> Jobs \cup UnknownJobs]
    /\ \A e \in Execs \ {1} : job[e] \in PlainJobs
    /\ \A e \in Execs :
         job[e].name = CHOOSE n \in 1..e :
                           /\ Settings(job[n]) = Settings(job[e])
                           /\ \A m \in 1..(n - 1) : Settings(job[m]) # Settings(job[e])
    /\ executor \in [Execs -> [job_type : {"script", "project", "batch"},
                               log_path : {LogPathOf(n, t) : n \in JobNames, t \in Seconds}]]
    /\ \A e \in Execs :
         /\ executor[e].log_path[1] = job[e].name
         /\ EarlierOfSameJob(e) = {} => executor[e].log_path[2] = 0
         /\ \/ executor[e].job_type = job[e].job_type
            \/ job[e].job_type = "batch" /\ executor[e].job_type = "script"
    /\ default_python_version \in DefaultPythonVersions
    /\ project_dir \in ProjectDirs
    /\ venv \in {v \in [dir : BOOLEAN, python : BOOLEAN] : v.python => v.dir}
    /\ (~project_dir.pyproject /\ ~project_dir.requirements) => ~venv.dir

\* no execute() has been called yet
NothingStarted ==
    /\ sem_value = MAX_CONCURRENT_PROCESSES
    /\ waiters = <<>>
    /\ pc = [e \in Execs |-> IF KnownKind(executor[e].job_type) THEN "idle"
                               ELSE "rejected"]
    /\ step = [e \in Execs |-> "none"]
    /\ ctx = [e \in Execs |-> [has_pyproject |-> FALSE, has_requirements |-> FALSE]]
    /\ command = [e \in Execs |-> NoCommand]
    /\ child = [e \in Execs |-> NoChild]
    /\ signals = [e \in Execs |-> <<>>]
    /\ clock = [e \in Execs |-> 0]
    /\ ret = [e \in Execs |-> NoCode]
    /\ how = [e \in Execs |-> "none"]
    /\ spawned = [e \in Execs |-> <<>>]
    /\ log_file = [e \in Execs |-> <<>>]
    /\ log_buf = [e \in Execs |-> <<>>]
    /\ exc = [e \in Execs |-> NoneVal]
    /\ exit_code = [e \in Execs |-> NoCode]
    /\ result = [e \in Execs |-> NoResult]
    /\ intervened = [e \in Execs |-> FALSE]
    /\ env_at_start = [e \in Execs |-> FALSE]

\* ---------------------------------------------------------------- the CLI
\* (src/pem/cli.py) the jobs table: a row has the fields add_job gives a Job
JobIds == 1..MaxJobs

Rows ==
    [id : JobIds, name : {"a", "b"}, job_type : {"script", "project"},
     path : {"p", "q"}, dependencies : {<<>>, <<"x">>},
     python_version : {NoneVal, "3.12"}, is_enabled : BOOLEAN]

\* ids are the primary key, and no two rows have the same name
IsRegistry(reg) ==
    \A r1, r2 \in reg : (r1.id = r2.id \/ r1.name = r2.name) => r1 = r2

\* the tables the model starts from: rows as `add` with --name, --path,
\* --script and --enabled makes them
AddedRows ==
    {r \in Rows : r.path = "p" /\ r.dependencies = <<>> /\ r.python_version = NoneVal}

InitialRegistries ==
    {reg \in {{}} \cup {{r} : r \in AddedRows}
                  \cup {{r1, r2} : r1 \in AddedRows, r2 \in AddedRows} : IsRegistry(reg)}

\* a command line: an option that was not given has its default (None, 0 for
\* no id, an empty list for no --with); --script and --enabled are flags; n
\* counts the commands given so far
CliCalls ==
    [command : {"show", "update"}, job_id : {0} \cup JobIds,
     name : {NoneVal, "a", "b"}, path : {NoneVal, "q"}, is_script : BOOLEAN,
     dependencies : {<<>>, <<"y">>}, python_version : {NoneVal, "3.13"},
     enabled_given : BOOLEAN, n : 1..MaxCommands]

NoCall ==
    [command |-> "none", job_id |-> 0, name |-> NoneVal, path |-> NoneVal,
     is_script |-> FALSE, dependencies |-> <<>>, python_version |-> NoneVal,
     enabled_given |-> FALSE, n |-> 0]

\* `show` takes --name and --id only
ShowCalls ==
    {c \in CliCalls : c.command = "show" /\ c.path = NoneVal /\ ~c.is_script
                       /\ c.dependencies = <<>> /\ c.python_version = NoneVal
                       /\ ~c.enabled_given}

UpdateCalls == {c \in CliCalls : c.command = "update"}

\* session.get(Job, job_id) and session.scalar(select(Job).filter_by(name=name)):
\* the row, or none
RowsById(reg, job_id) == {r \in reg : r.id = job_id}

RowsByName(reg, name) == {r \in reg : r.name = name}

\* session.execute(select(Job)).scalars().all(): every row, by id
RECURSIVE RowsFrom(_, _)
RowsFrom(reg, i) ==
    IF i > MaxJobs THEN <<>>
    ELSE (IF RowsById(reg, i) # {} THEN <<RowsById(reg, i)>> ELSE <<>>)
           \o RowsFrom(reg, i + 1)

\* show_jobs, lines 97-103: the list `jobs`; an element is a row or None
\* (here a set of one row or of none)
ShowList(reg, c) ==
    IF c.job_id = 0 /\ c.name = NoneVal THEN RowsFrom(reg, 1)
    ELSE IF c.name # NoneVal THEN <<RowsByName(reg, c.name)>>
    ELSE <<RowsById(reg, c.job_id)>>

\* show_jobs, lines 105-115: what is printed
ShowEchoes(jobs) ==
    IF Len(jobs) > 1
    THEN [i \in 1..Len(jobs) |-> <<"details", jobs[i]>>]
    ELSE << <<"not found", {}>> >>

\* update_job, lines 135-138: is_enabled is True by default and with --enabled
IsEnabledParameter(c) == TRUE

\* update_job, lines 144-147: the job that is looked up
UpdateSelection(reg, c) ==
    IF c.job_id # 0 THEN RowsById(reg, c.job_id) ELSE RowsByName(reg, c.name)

\* update_job, lines 152-157: the assignments; line 154 sets an attribute
\* is_script, which is no field of the row, and job_type stays
UpdatedRow(r, c) ==
    [r EXCEPT !.name = IF c.name # NoneVal THEN c.name ELSE @,
              !.path = IF c.path # NoneVal THEN c.path ELSE @,
              !.dependencies = IF c.dependencies # <<>> THEN c.dependencies ELSE @,
              !.python_version = IF c.python_version # NoneVal
                                 THEN c.python_version ELSE @,
              !.is_enabled = IsEnabledParameter(c)]

\* no command has been given
NoCli == registry = {} /\ cli_call = NoCall /\ echoed = <<>>

\* the preparation steps a project with this manifest needs (lines 116-145)
RequiredSteps(d) == IF d.pyproject THEN {"sync"} ELSE {"venv", "install"}

\* an environment that is there in full was prepared by earlier executions;
\* one that is there in part was left by a preparation that did not end
PreparedBefore ==
    completed = IF venv.dir /\ venv.python
                   /\ (project_dir.pyproject \/ project_dir.requirements)
                THEN RequiredSteps(project_dir) ELSE {}

Init == Inputs /\ NothingStarted /\ PreparedBefore /\ NoCli

\* ----------------------------------------------------------------- SEMAPHORE
\* asyncio.Semaphore.acquire as entered by `async with SEMAPHORE` (line 51):
\* take a slot when one is free and nobody queues, else queue behind the others
SemAcquireAlways(s, e) ==
    [value |-> s.value - 1, waiters |-> s.waiters, woken |-> s.woken \cup {e}]

SemAcquire(s, e) ==
    IF s.value > 0 /\ s.waiters = <<>>
    THEN [value |-> s.value - 1, waiters |-> s.waiters, woken |-> s.woken \cup {e}]
    ELSE [value |-> s.value, waiters |-> Append(s.waiters, e), woken |-> s.woken]

\* asyncio.Semaphore.release at the end of the `async with` block: the slot goes
\* to the first waiter if there is one
SemReleaseNoWakeUp(s) ==
    [value |-> s.value + 1, waiters |-> s.waiters, woken |-> s.woken]

SemRelease(s) ==
    IF s.waiters # <<>>
    THEN [value |-> s.value, waiters |-> Tail(s.waiters),
          woken |-> s.woken \cup {Head(s.waiters)}]
    ELSE [value |-> s.value + 1, waiters |-> s.waiters, woken |-> s.woken]

SemNow == [value |-> sem_value, waiters |-> waiters, woken |-> {}]

\* _run_command leaves the `async with` block on every path (lines 51-78)
ReleasesSlotUnlessRaised(path) == path # "spawn_failed"

ReleasesSlot(path) == TRUE

SemAfterReturn(path) == IF ReleasesSlot(path) THEN SemRelease(SemNow) ELSE SemNow

\* ----------------------------------------------------------------- pipeline
Marker(kind, argv) == <<kind, argv>>

\* line 117: self.venv_path.exists()
ManagedEnvNeverFound(v) == FALSE

ManagedEnvExists(v) == v.dir

\* lines 126 and 174: self.venv_python.exists()
BareEnvAlwaysFound(v) == TRUE

BareEnvExists(v) == v.python

\* what execute() calls first (lines 197-200 and the callee down to the first
\* _run_command call): the step, the command, and the marker line it logs
FirstCall(j, python_version, d, v) ==
    IF j.job_type = "script"
    THEN [step |-> "run", cwd |-> NoneVal,
          argv |-> ScriptPathCommand(python_version, j.path, j.dependencies),
          marker |-> "Running command"]
    ELSE IF d.is_file
    THEN [step |-> "run", cwd |-> NoneVal,
          argv |-> ScriptPathCommand(python_version, j.path, <<>>),
          marker |-> "Running command"]
    ELSE IF ~d.pyproject /\ ~d.requirements
    THEN [step |-> "run",
          cwd |-> IF SubSeq(ProjectEntryCommand(d), 1, 2) = <<"python", "-m">>
                  THEN j.path ELSE NoneVal,
          argv |-> BareProjectCommand(d, python_version),
          marker |-> "Running command"]
    ELSE IF d.pyproject /\ ~ManagedEnvExists(v)
    THEN [step |-> "sync", cwd |-> j.path, argv |-> SyncCommand(python_version),
          marker |-> "Preparing environment"]
    ELSE IF ~d.pyproject /\ d.requirements /\ ~BareEnvExists(v)
    THEN [step |-> "venv", cwd |-> j.path, argv |-> VenvCommand(python_version),
          marker |-> "Preparing environment"]
    ELSE [step |-> "run", cwd |-> j.path,
          argv |-> ProjectRunCommand(d, d.requirements, BareEnvExists(v), python_version),
          marker |-> "Running command"]

\* line 131: a create step that did not return 0 fails the preparation
\* lines 122, 144: so does a synchronize or install step
PreparationOkUnlessSentinel(r) == r # SENTINEL

PreparationOk(r) == r = 0

\* what follows the return of a _run_command call: the next call, or the
\* exit code of the pipeline (step = "none")
NextCall(e, r) ==
    IF step[e] = "run"
    THEN [step |-> "none", exit_code |-> r, intervened |-> how[e] # "exited"]
    ELSE IF ~PreparationOk(r)
    THEN [step |-> "none", exit_code |-> SENTINEL, intervened |-> TRUE]
    ELSE IF step[e] = "venv"
    THEN [step |-> "install", cwd |-> job[e].path, argv |-> InstallCommand,
          marker |-> "Installing requirements"]
    ELSE [step |-> "run", cwd |-> job[e].path,
          argv |-> ProjectRunCommand(project_dir, ctx[e].has_requirements,
                                     BareEnvExists(venv), PythonVersionOf(e)),
          marker |-> "Running command"]


\* ----------------------------------------------------------- child processes
Exited(n) == [kind |-> "exit", n |-> n]
Signalled(n) == [kind |-> "signal", n |-> n]

\* Process.returncode: the exit status, or minus the number of the signal
\* that ended the child
ReturnCode(t) == IF t.kind = "exit" THEN t.n ELSE 0 - t.n

\* how a child may end: by itself (exit status, or a signal from outside the
\* executor), or by a signal the executor has sent it
Endings(sigs) ==
    {Exited(0), Exited(1), Signalled(SIGHUP)} \cup {Signalled(sigs[i]) : i \in 1..Len(sigs)}

Alive(e) == child[e].state = "alive"
HasExited(e) == child[e].state = "exited"

\* line 64: wait_for(process.wait(), timeout=PROCESS_TIMEOUT) has run out
TimeoutNeverExpires(e) == FALSE

TimeoutExpired(e) == clock[e] = PROCESS_TIMEOUT

\* line 69: wait_for(process.wait(), timeout=10) has run out
GraceExpiredAtOnce(e) == TRUE

GraceExpired(e) == clock[e] = GRACE

\* line 75: return process.returncode or 0
ReturnValue(returncode) == IF returncode = NoCode THEN 0 ELSE returncode

\* line 73: the timeout branch returns -1 whatever the child reported
TimeoutReturnChildCode(returncode) == ReturnValue(returncode)

TimeoutReturn(returncode) == SENTINEL

\* line 205: `except Exception` around the whole pipeline
Exceptions == {"OSError", "ValueError"}
ExceptCatchesValueError(x) == x = "ValueError"

ExceptCatches(x) == x \in Exceptions

\* lines 190-195: the header is written and flushed
HeaderFlushed == TRUE

\* lines 190-194: the header names the job, its kind and the start time of
\* this very execution
Header(e) == <<"header", e>>

\* line 210: the line the handler appends
ErrorLine(e) == <<"error", e>>

\* the files after execution e has made `content` of the file at its log_path:
\* executions with the same log_path have the same file
LogWrite(e, content) ==
    [x \in Execs |-> IF executor[x].log_path = executor[e].log_path
                     THEN content ELSE log_file[x]]

HasManifest == project_dir.pyproject \/ project_dir.requirements

\* the project's environment: the managed one under a full manifest, else the
\* bare one's interpreter
EnvExists == IF project_dir.pyproject THEN venv.dir ELSE venv.python

\* the state of SEMAPHORE and of the caller once execution e has asked for call c
EnterRunCommand(e, c, s) ==
    LET a == SemAcquire(s, e) IN
    /\ sem_value' = a.value
    /\ waiters' = a.waiters
    /\ pc' = [x \in Execs |-> IF x \in a.woken THEN "spawn"
                              ELSE IF x = e THEN "blocked" ELSE pc[x]]
    /\ step' = [step EXCEPT ![e] = c.step]
    /\ command' = [command EXCEPT ![e] = [argv |-> c.argv, cwd |-> c.cwd]]
    /\ log_buf' = [log_buf EXCEPT ![e] = Append(@, Marker(c.marker, c.argv))]

\* execute(), lines 184-200, down to the first suspension: the log is opened
\* with mode "w", which empties it, and gets its header, and the pipeline asks
\* for its first command
Execute_Start(e) ==
    /\ pc[e] = "idle"
    /\ KnownKind(job[e].job_type)
    /\ log_file' = LogWrite(e, IF HeaderFlushed THEN <<Header(e)>> ELSE <<>>)
    /\ ctx' = [ctx EXCEPT ![e] = [has_pyproject |-> project_dir.pyproject,
                                  has_requirements |-> project_dir.requirements]]
    /\ env_at_start' = [env_at_start EXCEPT ![e] = EnvExists]
    /\ EnterRunCommand(e, FirstCall(job[e], PythonVersionOf(e), project_dir, venv), SemNow)
    /\ UNCHANGED <<registry, cli_call, echoed, completed, job, executor,
                   default_python_version, project_dir, venv, child, signals,
                   clock, ret, how, spawned, exc, exit_code, result, intervened>>

\* execute(), line 189: open() raises, nothing of the pipeline runs
Execute_OpenFails(e) ==
    /\ pc[e] = "idle"
    /\ pc' = [pc EXCEPT ![e] = "except"]
    /\ exc' = [exc EXCEPT ![e] = "OSError"]
    /\ UNCHANGED <<registry, cli_call, echoed, completed, job, executor,
                   default_python_version, project_dir, venv, sem_value, waiters,
                   step, ctx, command, child, signals, clock, ret, how, spawned,
                   log_file, log_buf, exit_code, result, intervened, env_at_start>>

\* execute(), lines 184-203: the dispatch finds a job_type it has no branch
\* for (the job was changed after construction) and raises; the log is
\* open and has its header by then
Execute_UnknownKind(e) ==
    /\ pc[e] = "idle"
    /\ ~KnownKind(job[e].job_type)
    /\ log_file' = LogWrite(e, IF HeaderFlushed THEN <<Header(e)>> ELSE <<>>)
    /\ pc' = [pc EXCEPT ![e] = "except"]
    /\ exc' = [exc EXCEPT ![e] = "ValueError"]
    /\ UNCHANGED <<registry, cli_call, echoed, completed, job, executor,
                   default_python_version, project_dir, venv, sem_value,
                   waiters, step, ctx, command, child, signals, clock, ret, how,
                   spawned, log_buf, exit_code, result, intervened, env_at_start>>

\* execute(), lines 205-213: the handler; appending the error line may fail too
Execute_Except(e) ==
    /\ pc[e] = "except"
    /\ IF ExceptCatches(exc[e])
       THEN /\ pc' = [pc EXCEPT ![e] = "finish"]
            /\ exit_code' = [exit_code EXCEPT ![e] = SENTINEL]
            /\ intervened' = [intervened EXCEPT ![e] = TRUE]
            /\ \E appended \in BOOLEAN :
                 log_file' = IF appended
                             THEN LogWrite(e, Append(log_file[e], ErrorLine(e)))
                             ELSE log_file
       ELSE /\ pc' = [pc EXCEPT ![e] = "raised"]
            /\ UNCHANGED <<exit_code, intervened, log_file>>
    /\ exc' = [exc EXCEPT ![e] = NoneVal]
    /\ UNCHANGED <<registry, cli_call, echoed, completed, job, executor,
                   default_python_version, project_dir, venv, sem_value, waiters,
                   step, ctx, command, child, signals, clock, ret, how, spawned,
                   log_buf, result, env_at_start>>

\* datetime.now(UTC), lines 184 and 215: the wall clock, which its owner and
\* the time service may set, also back.  Only the distance of the two readings
\* of an execution shows in its result, so the first one is taken to be 1.
\* The clock is set while the first execution runs; for the others it advances.
WallClock == 0..MaxWall

StartTime == 1

EndTimes(e) == IF e = 1 THEN WallClock ELSE {t \in WallClock : t > StartTime}

\* line 216: (end_time - start_time).total_seconds()
Duration(start_time, end_time) == end_time - start_time

\* line 218
StatusOfNonNegative(code) == IF code >= 0 THEN "SUCCESS" ELSE "FAILED"

StatusOf(code) == IF code = 0 THEN "SUCCESS" ELSE "FAILED"

\* execute(), lines 215-229
Execute_Finish(e) ==
    /\ pc[e] = "finish"
    /\ pc' = [pc EXCEPT ![e] = "done"]
    /\ \E end_time \in EndTimes(e) :
         result' = [result EXCEPT ![e] =
                       [status |-> StatusOf(exit_code[e]), exit_code |-> exit_code[e],
                        start_time |-> StartTime, end_time |-> end_time,
                        duration |-> Duration(StartTime, end_time)]]
    /\ UNCHANGED <<registry, cli_call, echoed, completed, job, executor,
                   default_python_version, project_dir, venv, sem_value, waiters,
                   step, ctx, command, child, signals, clock, ret, how, spawned,
                   log_file, log_buf, exc, exit_code, intervened, env_at_start>>

\* _run_command, lines 53-60: the slot is held and the child is created
RunCommand_Spawn(e) ==
    /\ pc[e] = "spawn"
    /\ pc' = [pc EXCEPT ![e] = "wait"]
    /\ child' = [child EXCEPT ![e] = [state |-> "alive", returncode |-> NoCode]]
    /\ signals' = [signals EXCEPT ![e] = <<>>]
    /\ clock' = [clock EXCEPT ![e] = 0]
    /\ spawned' = [spawned EXCEPT ![e] = Append(@, command[e])]
    /\ UNCHANGED <<registry, cli_call, echoed, completed, job, executor,
                   default_python_version, project_dir, venv, sem_value, waiters,
                   step, ctx, command, ret, how, log_file, log_buf, exc, exit_code,
                   result, intervened, env_at_start>>

\* _run_command, lines 53 and 76-78: create_subprocess_exec raises
RunCommand_SpawnFails(e) ==
    /\ pc[e] = "spawn"
    /\ pc' = [pc EXCEPT ![e] = "return"]
    /\ ret' = [ret EXCEPT ![e] = SENTINEL]
    /\ how' = [how EXCEPT ![e] = "spawn_failed"]
    /\ UNCHANGED <<registry, cli_call, echoed, completed, job, executor,
                   default_python_version, project_dir, venv, sem_value, waiters,
                   step, ctx, command, child, signals, clock, spawned, log_file,
                   log_buf, exc, exit_code, result, intervened, env_at_start>>

\* _run_command, lines 64 and 75: the child ended within the timeout
RunCommand_WaitDone(e) ==
    /\ pc[e] = "wait"
    /\ HasExited(e)
    /\ pc' = [pc EXCEPT ![e] = "return"]
    /\ ret' = [ret EXCEPT ![e] = ReturnValue(child[e].returncode)]
    /\ how' = [how EXCEPT ![e] = "exited"]
    /\ UNCHANGED <<registry, cli_call, echoed, completed, job, executor,
                   default_python_version, project_dir, venv, sem_value, waiters,
                   step, ctx, command, child, signals, clock, spawned, log_file,
                   log_buf, exc, exit_code, result, intervened, env_at_start>>

\* _run_command, lines 65-69: the timeout ran out, terminate is sent
RunCommand_Timeout(e) ==
    /\ pc[e] = "wait"
    /\ Alive(e)
    /\ TimeoutExpired(e)
    /\ pc' = [pc EXCEPT ![e] = "grace"]
    /\ signals' = [signals EXCEPT ![e] = Append(@, SIGTERM)]
    /\ clock' = [clock EXCEPT ![e] = 0]
    /\ UNCHANGED <<registry, cli_call, echoed, completed, job, executor,
                   default_python_version, project_dir, venv, sem_value, waiters,
                   step, ctx, command, child, ret, how, spawned, log_file, log_buf,
                   exc, exit_code, result, intervened, env_at_start>>

\* _run_command, lines 69 and 73: the child ended within the grace window
RunCommand_GraceDone(e) ==
    /\ pc[e] = "grace"
    /\ HasExited(e)
    /\ pc' = [pc EXCEPT ![e] = "return"]
    /\ ret' = [ret EXCEPT ![e] = TimeoutReturn(child[e].returncode)]
    /\ how' = [how EXCEPT ![e] = "timeout"]
    /\ UNCHANGED <<registry, cli_call, echoed, completed, job, executor,
                   default_python_version, project_dir, venv, sem_value, waiters,
                   step, ctx, command, child, signals, clock, spawned, log_file,
                   log_buf, exc, exit_code, result, intervened, env_at_start>>

\* _run_command, lines 70-72: the grace window ran out, kill is sent
RunCommand_GraceTimeout(e) ==
    /\ pc[e] = "grace"
    /\ Alive(e)
    /\ GraceExpired(e)
    /\ pc' = [pc EXCEPT ![e] = "killed"]
    /\ signals' = [signals EXCEPT ![e] = Append(@, SIGKILL)]
    /\ clock' = [clock EXCEPT ![e] = 0]
    /\ UNCHANGED <<registry, cli_call, echoed, completed, job, executor,
                   default_python_version, project_dir, venv, sem_value, waiters,
                   step, ctx, command, child, ret, how, spawned, log_file, log_buf,
                   exc, exit_code, result, intervened, env_at_start>>

\* _run_command, lines 72-73: the killed child has ended
RunCommand_KillDone(e) ==
    /\ pc[e] = "killed"
    /\ HasExited(e)
    /\ pc' = [pc EXCEPT ![e] = "return"]
    /\ ret' = [ret EXCEPT ![e] = TimeoutReturn(child[e].returncode)]
    /\ how' = [how EXCEPT ![e] = "timeout"]
    /\ UNCHANGED <<registry, cli_call, echoed, completed, job, executor,
                   default_python_version, project_dir, venv, sem_value, waiters,
                   step, ctx, command, child, signals, clock, spawned, log_file,
                   log_buf, exc, exit_code, result, intervened, env_at_start>>


\* lines 122, 131, 144: a preparation call whose child ended with 0 in time
CompletedWithZero(e) ==
    step[e] \in {"sync", "venv", "install"} /\ how[e] = "exited" /\ ret[e] = 0

\* _run_command returns (lines 73, 75, 78): the `async with` block is left, and
\* the caller runs on to its next _run_command call or to the end of the
\* `with open(...)` block, which flushes and closes the log
RunCommand_Return(e) ==
    /\ pc[e] = "return"
    /\ LET s == SemAfterReturn(how[e])
           n == NextCall(e, ret[e])
       IN IF n.step = "none"
          THEN /\ sem_value' = s.value
               /\ waiters' = s.waiters
               /\ pc' = [x \in Execs |-> IF x \in s.woken THEN "spawn"
                                         ELSE IF x = e THEN "finish" ELSE pc[x]]
               /\ exit_code' = [exit_code EXCEPT ![e] = n.exit_code]
               /\ intervened' = [intervened EXCEPT ![e] = n.intervened]
               /\ log_file' = LogWrite(e, log_file[e] \o log_buf[e])
               /\ log_buf' = [log_buf EXCEPT ![e] = <<>>]
               /\ step' = [step EXCEPT ![e] = "none"]
               /\ command' = [command EXCEPT ![e] = NoCommand]
          ELSE /\ EnterRunCommand(e, n, s)
               /\ UNCHANGED <<exit_code, intervened, log_file>>
    /\ child' = [child EXCEPT ![e] = NoChild]
    /\ clock' = [clock EXCEPT ![e] = 0]
    /\ ret' = [ret EXCEPT ![e] = NoCode]
    /\ how' = [how EXCEPT ![e] = IF NextCall(e, ret[e]).step = "none" THEN @ ELSE "none"]
    /\ completed' = IF CompletedWithZero(e) THEN completed \cup {step[e]} ELSE completed
    /\ UNCHANGED <<registry, cli_call, echoed, job, executor,
                   default_python_version, project_dir, venv, ctx, signals,
                   spawned, exc, result, env_at_start>>

\* ------------------------------------------------------------- environment
\* `uv sync` and `uv venv` report success only once the environment is there
MayEndWith(e, t) ==
    (step[e] \in {"sync", "venv"} /\ ReturnCode(t) = 0) => (venv.dir /\ venv.python)

\* the child of execution e ends; what it wrote went straight to the file
\* descriptor it was given as stdout (line 55)
Child_Ends(e) ==
    /\ Alive(e)
    /\ \E t \in Endings(signals[e]) :
         /\ MayEndWith(e, t)
         /\ child' = [child EXCEPT ![e].state = "exited", ![e].returncode = ReturnCode(t)]
    /\ clock' = [clock EXCEPT ![e] = 0]
    /\ log_file' = LogWrite(e, Append(log_file[e], <<"output", command[e].argv>>))
    /\ UNCHANGED <<registry, cli_call, echoed, completed, job, executor,
                   default_python_version, project_dir, venv, sem_value, waiters,
                   pc, step, ctx, command, signals, ret, how, spawned,
                   log_buf, exc, exit_code, result, intervened, env_at_start>>

\* `uv sync` / `uv venv` create .venv, then .venv/bin/python
Child_CreatesVenv(e) ==
    /\ Alive(e)
    /\ step[e] \in {"sync", "venv"}
    /\ ~venv.python
    /\ venv' = [dir |-> TRUE, python |-> venv.dir]
    /\ UNCHANGED <<registry, cli_call, echoed, completed, job, executor,
                   default_python_version, project_dir, sem_value, waiters,
                   pc, step, ctx, command, child, signals, clock, ret, how, spawned,
                   log_file, log_buf, exc, exit_code, result, intervened, env_at_start>>

\* the executions that sit in a wait_for whose child is still running
Waiting == {e \in Execs : pc[e] \in {"wait", "grace"} /\ Alive(e)}

Deadline(e) == IF pc[e] = "wait" THEN PROCESS_TIMEOUT ELSE GRACE

\* time passes, the same for every running wait_for, up to the moment the
\* next of them runs out; a wait_for that has run out fires before more passes
Tick ==
    /\ Waiting # {}
    /\ \A e \in Waiting : clock[e] < Deadline(e)
    /\ \E d \in 1..GRACE :
         /\ \A e \in Waiting : clock[e] + d <= Deadline(e)
         /\ \E e \in Waiting : clock[e] + d = Deadline(e)
         /\ clock' = [e \in Execs |-> IF e \in Waiting THEN clock[e] + d ELSE clock[e]]
    /\ UNCHANGED <<registry, cli_call, echoed, completed, job, executor,
                   default_python_version, project_dir, venv, sem_value, waiters,
                   pc, step, ctx, command, child, signals, ret, how, spawned,
                   log_file, log_buf, exc, exit_code, result, intervened, env_at_start>>

Next ==
    \/ \E e \in Execs : Execute_Start(e)
    \/ \E e \in Execs : Execute_OpenFails(e)
    \/ \E e \in Execs : Execute_UnknownKind(e)
    \/ \E e \in Execs : Execute_Except(e)
    \/ \E e \in Execs : Execute_Finish(e)
    \/ \E e \in Execs : RunCommand_Spawn(e)
    \/ \E e \in Execs : RunCommand_SpawnFails(e)
    \/ \E e \in Execs : RunCommand_WaitDone(e)
    \/ \E e \in Execs : RunCommand_Timeout(e)
    \/ \E e \in Execs : RunCommand_GraceDone(e)
    \/ \E e \in Execs : RunCommand_GraceTimeout(e)
    \/ \E e \in Execs : RunCommand_KillDone(e)
    \/ \E e \in Execs : RunCommand_Return(e)
    \/ \E e \in Execs : Child_Ends(e)
    \/ \E e \in Execs : Child_CreatesVenv(e)
    \/ Tick

Spec == Init /\ [][Next]_vars

\* the killed child of execution e ends
Child_EndsKilled(e) == pc[e] = "killed" /\ Child_Ends(e)

\* every execution that can run does run (the event loop is fair), time
\* passes, and a child that was sent kill ends
Fairness ==
    /\ \A e \in Execs :
         /\ WF_vars(Execute_Except(e))
         /\ WF_vars(Execute_Finish(e))
         /\ WF_vars(RunCommand_Spawn(e) \/ RunCommand_SpawnFails(e))
         /\ WF_vars(RunCommand_WaitDone(e))
         /\ WF_vars(RunCommand_Timeout(e))
         /\ WF_vars(RunCommand_GraceDone(e))
         /\ WF_vars(RunCommand_GraceTimeout(e))
         /\ WF_vars(RunCommand_KillDone(e))
         /\ WF_vars(RunCommand_Return(e))
         /\ WF_vars(Child_EndsKilled(e))
    /\ WF_vars(Tick)

\* plain jobs on a project whose environment has to be prepared first
LiveInputs ==
    /\ Inputs
    /\ \A e \in Execs : job[e] \in PlainJobs \cup UnknownJobs
    /\ \A e \in Execs : KnownKind(executor[e].job_type)
    /\ \A e \in Execs : executor[e].log_path[2] = 0
    /\ ~project_dir.is_file /\ project_dir.main
    /\ project_dir.pyproject # project_dir.requirements
    /\ ~venv.dir

LiveInit == LiveInputs /\ NothingStarted /\ PreparedBefore /\ NoCli

LiveSpec == LiveInit /\ [][Next]_vars /\ Fairness

\* --------------------------------------------------------- the CLI commands
\* pem show [--name N] [--id I]
Cli_Show(c) ==
    /\ c.n = cli_call.n + 1
    /\ cli_call' = c
    /\ echoed' = ShowEchoes(ShowList(registry, c))
    /\ UNCHANGED registry

\* pem update [--id I] [--name N] [--path P] [--script] [--with D]
\* [--python V] [--enabled]; a new name is one no other row has
Cli_Update(c) ==
    /\ c.n = cli_call.n + 1
    /\ cli_call' = c
    /\ IF c.job_id = 0 /\ c.name = NoneVal
       THEN echoed' = << <<"must provide", {}>> >> /\ UNCHANGED registry
       ELSE IF UpdateSelection(registry, c) = {}
       THEN echoed' = << <<"raised", {}>> >> /\ UNCHANGED registry
       ELSE LET r == CHOOSE x \in UpdateSelection(registry, c) : TRUE
                u == UpdatedRow(r, c)
            IN /\ IsRegistry((registry \ {r}) \cup {u})
               /\ registry' = (registry \ {r}) \cup {u}
               /\ echoed' = << <<"updated", {u}>> >>

\* the executor's variables, which the CLI commands leave alone
executor_vars ==
    <<job, executor, default_python_version, project_dir, venv, sem_value, waiters,
      pc, step, ctx, command, child, signals, clock, ret, how, spawned,
      log_file, log_buf, exc, exit_code, result, intervened, env_at_start,
      completed>>

CliNext ==
    \/ \E c \in ShowCalls : Cli_Show(c) /\ UNCHANGED executor_vars
    \/ \E c \in UpdateCalls : Cli_Update(c) /\ UNCHANGED executor_vars

\* the CLI over any table, with no execution going on
CliInit ==
    /\ Inputs /\ NothingStarted /\ PreparedBefore
    /\ \A e \in Execs : job[e] \in PlainJobs /\ job[e].job_type = "script"
    /\ project_dir.is_file /\ ~venv.dir
    /\ \A e \in Execs : executor[e].log_path[2] = 0
    /\ registry \in InitialRegistries
    /\ cli_call = NoCall
    /\ echoed = <<>>

CliSpec == CliInit /\ [][CliNext]_vars

\* ===================================================================== claims
AliveChildren == {e \in Execs : Alive(e)}

\* the executions that are inside `async with SEMAPHORE`
InRunCommand == {e \in Execs : pc[e] \in {"spawn", "wait", "grace", "killed", "return"}}

HeldSlots == MAX_CONCURRENT_PROCESSES - sem_value

\* C1: at no time are more than MAX_CONCURRENT_PROCESSES children alive that
\* _run_command has spawned, however many executions run and whatever they run
C1_AtMostCChildrenAlive ==
    Cardinality(AliveChildren) <= MAX_CONCURRENT_PROCESSES

\* as many children alive as there are slots, and another execution waits
C1_Witness ==
    /\ Cardinality(AliveChildren) = MAX_CONCURRENT_PROCESSES
    /\ \E e \in Execs : pc[e] = "blocked"

\* C7: the slots held are exactly those of the _run_command calls in progress,
\* so every call has given back its one slot on whichever path it returned,
\* and with no call in progress all slots are free
C7_SlotsMatchCalls ==
    /\ HeldSlots = Cardinality(InRunCommand)
    /\ InRunCommand = {} => sem_value = MAX_CONCURRENT_PROCESSES
    /\ \A e \in Execs : pc[e] = "blocked" <=> Contains(waiters, e)

\* a call has returned through a failure path after spawning, another through
\* a spawn failure, and every slot is free again
C7_Witness ==
    /\ sem_value = MAX_CONCURRENT_PROCESSES
    /\ \E e \in Execs : pc[e] = "done" /\ signals[e] # <<>>
    /\ \E e \in Execs : pc[e] = "done" /\ spawned[e] = <<>> /\ log_file[e] # <<>>
                        /\ Head(log_file[e]) = Header(e)


\* C3: terminate goes to a child only when it is still alive once
\* PROCESS_TIMEOUT has run out, kill only after terminate and only when the
\* child is still alive once the grace window of 10 has run out as well, and a
\* child that ended within its timeout has been sent neither
C3_TerminateThenKill ==
    [][\A e \in Execs :
         /\ signals'[e] # signals[e] =>
              \/ signals'[e] = <<>>
              \/ /\ signals[e] = <<>> /\ signals'[e] = <<SIGTERM>>
                 /\ pc[e] = "wait" /\ Alive(e) /\ clock[e] = PROCESS_TIMEOUT
              \/ /\ signals[e] = <<SIGTERM>> /\ signals'[e] = <<SIGTERM, SIGKILL>>
                 /\ pc[e] = "grace" /\ Alive(e) /\ clock[e] = 10
         /\ (pc[e] = "wait" /\ pc'[e] = "grace") => signals'[e] = <<SIGTERM>>
         /\ (pc[e] = "wait" /\ pc'[e] = "return") => signals'[e] = <<>>
    ]_vars

\* a child has been sent terminate and then kill
C3_Witness == \E e \in Execs : signals[e] = <<SIGTERM, SIGKILL>> /\ pc[e] = "killed"

\* C4: a _run_command call that sent terminate returns -1 whatever its child
\* did after that, it is the last call of its execution, and the execution
\* reports FAILED with exit_code -1
C4_TimeoutReturnsSentinel ==
    \A e \in Execs :
        signals[e] # <<>> =>
            /\ pc[e] \in {"grace", "killed", "return", "finish", "done"}
            /\ pc[e] = "return" => ret[e] = SENTINEL
            /\ pc[e] \in {"finish", "done"} => exit_code[e] = SENTINEL
            /\ pc[e] = "done" => (result[e].status = "FAILED"
                                  /\ result[e].exit_code = SENTINEL)

\* the child exited with 0 by itself inside the grace window, and -1 is returned
C4_Witness ==
    \E e \in Execs :
        /\ pc[e] = "return" /\ signals[e] = <<SIGTERM>>
        /\ child[e].returncode = 0 /\ ret[e] = SENTINEL

\* C5: a result carries exit_code -1 only if the executor itself intervened
\* (timeout, spawn failure, exception, failed preparation), never when the run
\* command's child ended by itself or by a signal from elsewhere
C5_SentinelMeansIntervention ==
    \A e \in Execs :
        (pc[e] = "done" /\ result[e].exit_code = SENTINEL) => intervened[e]

\* C6: execute() never raises, and every failure inside it comes back as a
\* result with status FAILED, exit_code -1, end_time and duration
C6_ExecuteNeverRaises ==
    \A e \in Execs :
        /\ pc[e] # "raised"
        /\ pc[e] = "done" =>
             /\ result[e].end_time # NoCode /\ result[e].duration # NoCode
             /\ result[e].status \in {"SUCCESS", "FAILED"}
             /\ intervened[e] => (result[e].status = "FAILED"
                                  /\ result[e].exit_code = SENTINEL)

\* the log could not be opened and the error line could not be appended
C6_Witness ==
    \E e \in Execs : pc[e] = "done" /\ log_file[e] = <<>> /\ result[e].status = "FAILED"

\* C2: under fair scheduling, with killed children ending, every execute()
\* that was called returns a result, also when its child never ends by itself,
\* and every execution waiting for a slot gets one
C2_EveryExecutionReturns ==
    \A e \in Execs :
        /\ (pc[e] # "idle") ~> (pc[e] = "done")
        /\ (pc[e] = "blocked") ~> (pc[e] = "spawn")

\* an execution has returned after its child had to be killed, and another one
\* that had to wait for the slot has returned too
C2_Witness ==
    \E e1, e2 \in Execs :
        /\ e1 # e2 /\ pc[e1] = "done" /\ pc[e2] = "done"
        /\ signals[e1] = <<SIGTERM, SIGKILL>>
        /\ spawned[e2] # <<>>

IsScript(e) == job[e].job_type = "script"
IsProject(e) == job[e].job_type = "project"
IsolationFlag == "--no-project"
IsRun(argv) == SubSeq(argv, 1, 2) = <<"uv", "run">>
IsPreparation(argv) == argv[1] = "uv" /\ argv[2] \in {"sync", "venv", "pip"}

\* C8: every command spawned for a Script job is a `uv run` with --no-project
C8_ScriptAlwaysIsolated ==
    \A e \in Execs :
        IsScript(e) =>
            \A i \in 1..Len(spawned[e]) :
                /\ IsRun(spawned[e][i].argv)
                /\ Contains(spawned[e][i].argv, IsolationFlag)

\* a script with a version and dependencies has been spawned
C8_Witness ==
    \E e \in Execs :
        /\ IsScript(e) /\ job[e].dependencies # <<>> /\ job[e].python_version # NoneVal
        /\ Len(spawned[e]) = 1

\* C9: with a pyproject.toml in the project directory, with or without a
\* requirements.txt next to it, the run command has no --no-project
C9_FullManifestRunsManaged ==
    \A e \in Execs :
        (IsProject(e) /\ project_dir.pyproject) =>
            \A i \in 1..Len(spawned[e]) :
                IsRun(spawned[e][i].argv) => ~Contains(spawned[e][i].argv, IsolationFlag)

NoPreparation(e) ==
    /\ step[e] \notin {"sync", "venv", "install"}
    /\ \A i \in 1..Len(spawned[e]) : ~IsPreparation(spawned[e][i].argv)

\* C10: an execution that finds the project's environment in place spawns no
\* synchronize, create or install and goes to the run command; one that finds
\* it absent starts with preparation; after a successful execution the
\* environment is in place, so the next one prepares nothing
C10_PreparationOnlyWhenAbsent ==
    \A e \in Execs :
        (IsProject(e) /\ HasManifest /\ pc[e] # "idle") =>
            /\ env_at_start[e] =>
                 /\ NoPreparation(e)
                 /\ pc[e] \in {"blocked", "spawn", "wait"} => IsRun(command[e].argv)
            /\ ~env_at_start[e] =>
                 /\ pc[e] \in {"blocked", "spawn"} /\ spawned[e] = <<>>
                      => IsPreparation(command[e].argv)
                 /\ spawned[e] # <<>> => IsPreparation(spawned[e][1].argv)
            /\ (pc[e] = "done" /\ result[e].status = "SUCCESS") => EnvExists

\* one execution prepared the environment and succeeded, and a second one that
\* started after it has run the project without any preparation
C10_Witness ==
    \E e1, e2 \in Execs :
        /\ e1 # e2 /\ IsProject(e1) /\ IsProject(e2)
        /\ pc[e1] = "done" /\ result[e1].status = "SUCCESS" /\ ~env_at_start[e1]
        /\ \E i \in 1..Len(spawned[e1]) : IsPreparation(spawned[e1][i].argv)
        /\ pc[e2] = "done" /\ env_at_start[e2] /\ Len(spawned[e2]) = 1
        /\ IsRun(spawned[e2][1].argv)

PreparationSteps == {"sync", "venv", "install"}

\* C11: when a synchronize, create or install call returns anything but 0
\* (the child's non-zero status or -1), the execution goes straight to its
\* end with exit_code -1 and spawns nothing more; it does not raise, and its
\* result is FAILED with exit_code -1
C11_FailedPreparationEndsPipeline ==
    [][\A e \in Execs :
         /\ (pc[e] = "return" /\ step[e] \in PreparationSteps /\ ret[e] # 0
                /\ pc'[e] # "return")
              => (pc'[e] = "finish" /\ exit_code'[e] = SENTINEL
                  /\ spawned'[e] = spawned[e])
         /\ pc[e] = "finish"
              => /\ pc'[e] \in {"finish", "done"} /\ spawned'[e] = spawned[e]
                 /\ (pc'[e] = "done" /\ exit_code[e] = SENTINEL)
                      => (result'[e].status = "FAILED"
                          /\ result'[e].exit_code = SENTINEL)
         /\ pc[e] = "done"
              => (pc'[e] = "done" /\ spawned'[e] = spawned[e]
                  /\ result'[e] = result[e])
    ]_vars

\* the environment was created, the install ended by itself with a failure,
\* no run command was ever asked for, and the result is FAILED with -1
C11_Witness ==
    \E e \in Execs :
        /\ IsProject(e) /\ pc[e] = "done" /\ signals[e] = <<>>
        /\ Len(spawned[e]) = 2 /\ spawned[e][2].argv = InstallCommand
        /\ Contains(log_file[e], <<"output", InstallCommand>>)
        /\ \A i \in 1..Len(log_file[e]) : log_file[e][i][1] # "Running command"
        /\ result[e].status = "FAILED" /\ result[e].exit_code = SENTINEL

FlatOnly == ~project_dir.is_file /\ ~project_dir.pyproject /\ project_dir.requirements

\* C12: for a project with only a requirements.txt, every `uv run` that is
\* spawned has --no-project and names .venv/bin/python as its interpreter
C12_FlatRunsNameBareInterpreter ==
    \A e \in Execs :
        (IsProject(e) /\ FlatOnly) =>
            \A i \in 1..Len(spawned[e]) :
                IsRun(spawned[e][i].argv) =>
                    SubSeq(spawned[e][i].argv, 1, 5)
                        = <<"uv", "run", IsolationFlag, "--python", VenvPython>>

\* the bare environment was created and filled, and the project was run
C12_Witness ==
    \E e \in Execs :
        /\ IsProject(e) /\ FlatOnly /\ Len(spawned[e]) = 3
        /\ IsRun(spawned[e][3].argv)

BareDir == ~project_dir.is_file /\ ~HasManifest

\* C13: for a project directory without pyproject.toml and requirements.txt
\* nothing is prepared, and the one command is: main.py as an isolated script
\* if it is there, else app.py as an isolated script if it is there, else
\* `python -m <package>` under `uv run --no-project` in the project directory
C13_BareDirEntryPrecedence ==
    \A e \in Execs :
        (IsProject(e) /\ BareDir) =>
            /\ NoPreparation(e)
            /\ Len(spawned[e]) <= 1
            /\ \A i \in 1..Len(spawned[e]) :
                 LET run == <<"uv", "run", IsolationFlag, "--python", PythonVersionOf(e)>>
                     c == spawned[e][i]
                 IN IF project_dir.main THEN c.argv = run \o <<"proj/main.py">>
                    ELSE IF project_dir.app THEN c.argv = run \o <<"proj/app.py">>
                    ELSE /\ c.argv = run \o <<"python", "-m", "proj">>
                         /\ c.cwd = ProjectPath

\* main.py, app.py and __main__.py are all there, and the entry has been spawned
C13_Witness ==
    \E e \in Execs :
        /\ IsProject(e) /\ BareDir /\ Len(spawned[e]) = 1
        /\ project_dir.main /\ project_dir.app /\ project_dir.dunder_main
        /\ job[e].python_version # NoneVal

\* C19: the command of a Script job is `uv run --no-project`, `--python` with
\* the job's version or else the default one, a `--with d` pair for every
\* declared dependency in declared order, duplicates included, and the script
\* path; a child that ends with 0 within the timeout gives SUCCESS with 0
C19_ScriptCommandExact ==
    /\ [](\A e \in Execs : IsScript(e) =>
            /\ Len(spawned[e]) <= 1
            /\ \A i \in 1..Len(spawned[e]) :
                 LET a == spawned[e][i].argv
                     d == job[e].dependencies
                     v == IF job[e].python_version # NoneVal
                          THEN job[e].python_version ELSE default_python_version
                 IN /\ Len(a) = 5 + 2 * Len(d) + 1
                    /\ SubSeq(a, 1, 5) = <<"uv", "run", "--no-project", "--python", v>>
                    /\ \A k \in 1..Len(d) : a[4 + 2 * k] = "--with" /\ a[5 + 2 * k] = d[k]
                    /\ a[Len(a)] = job[e].path
                    /\ d = <<>> => ~Contains(a, "--with"))
    /\ [][\A e \in Execs : IsScript(e) =>
            /\ (pc[e] = "wait" /\ pc'[e] = "return" /\ child[e].returncode = 0)
                 => ret'[e] = 0
            /\ (pc[e] = "return" /\ pc'[e] # "return" /\ ret[e] = 0)
                 => (pc'[e] = "finish" /\ exit_code'[e] = 0)
            /\ (pc[e] = "finish" /\ pc'[e] = "done" /\ exit_code[e] = 0)
                 => (result'[e].status = "SUCCESS" /\ result'[e].exit_code = 0)
       ]_vars

\* a script with a version and three dependencies, two of them the same, has
\* ended with 0 and the result is SUCCESS
C19_Witness ==
    \E e \in Execs :
        /\ IsScript(e) /\ Len(job[e].dependencies) = 3
        /\ job[e].python_version # NoneVal
        /\ pc[e] = "done" /\ Len(spawned[e]) = 1
        /\ result[e].status = "SUCCESS" /\ result[e].exit_code = 0

\* C20: in every result status is SUCCESS exactly when exit_code is 0, and
\* FAILED for every other exit_code
C20_SuccessIffZero ==
    \A e \in Execs :
        pc[e] = "done" =>
            /\ result[e].exit_code # NoCode
            /\ result[e].status = "SUCCESS" <=> result[e].exit_code = 0
            /\ result[e].status = "FAILED" <=> result[e].exit_code # 0

\* one result with a positive exit_code and one with the sentinel, both FAILED
C20_Witness ==
    \E e1, e2 \in Execs :
        /\ pc[e1] = "done" /\ result[e1].exit_code = 1 /\ result[e1].status = "FAILED"
        /\ pc[e2] = "done" /\ result[e2].exit_code = SENTINEL
        /\ result[e2].status = "FAILED"

\* C14: a _run_command call whose spawn failed returns -1, and the execution
\* returns, without raising, a result that is FAILED with exit_code -1 and a
\* duration of at least 0
C14_SpawnFailureGivesFailedResult ==
    \A e \in Execs :
        /\ pc[e] # "raised"
        /\ (pc[e] = "return" /\ how[e] = "spawn_failed") => ret[e] = SENTINEL
        /\ (pc[e] = "done" /\ how[e] = "spawn_failed") =>
             /\ result[e].status = "FAILED" /\ result[e].exit_code = SENTINEL
             /\ result[e].duration >= 0

\* C15: any two executions that have begun have different log paths, and the
\* log an execution opens has not been written by another one
C15_ExclusiveLogFiles ==
    /\ \A e1, e2 \in Execs :
         (e1 # e2 /\ pc[e1] \notin {"idle", "rejected"}
            /\ pc[e2] \notin {"idle", "rejected"})
           => executor[e1].log_path # executor[e2].log_path
    /\ \A e \in Execs : pc[e] \in {"idle", "rejected"} => log_file[e] = <<>>

\* C16: whenever a child of an execution is alive, or the execution waits for
\* one it has spawned, the header of that execution is in its log file
C16_HeaderBeforeChild ==
    \A e \in Execs :
        (Alive(e) \/ pc[e] \in {"wait", "grace", "killed"})
          => Contains(log_file[e], Header(e))

\* C17: an Executor for a job of an unknown kind is refused at construction,
\* with no log file and no process; no execute() raises; and a kind found
\* unknown by the dispatch gives a FAILED result with exit_code -1 and no
\* process either
C17_UnknownKindRejected ==
    \A e \in Execs :
        /\ ~(executor[e].job_type \in {"script", "project"}) =>
             (pc[e] = "rejected" /\ log_file[e] = <<>> /\ spawned[e] = <<>>
              /\ command[e] = NoCommand /\ result[e] = NoResult)
        /\ pc[e] = "rejected" => ~(executor[e].job_type \in {"script", "project"})
        /\ pc[e] # "raised"
        /\ ~(job[e].job_type \in {"script", "project"}) =>
             /\ spawned[e] = <<>> /\ command[e] = NoCommand
             /\ pc[e] \in {"rejected", "idle", "except", "finish", "done"}
             /\ pc[e] = "done" => (result[e].status = "FAILED"
                                   /\ result[e].exit_code = SENTINEL)

\* the Executor of one job was refused and has left no trace, while another
\* execution has run to its end
C17_Witness ==
    \E e1, e2 \in Execs :
        /\ job[e1].job_type = "batch" /\ pc[e1] = "rejected" /\ log_file[e1] = <<>>
        /\ pc[e2] = "done" /\ spawned[e2] # <<>>

\* C21: the environment is looked for before the slot is asked for and never
\* again: an execution of a project with a manifest that found no environment
\* waits for a slot with its preparation command and spawns it as its first
\* command, whatever other executions have done to the environment since
C21_CheckThenCreateNotAtomic ==
    \A e \in Execs :
        (IsProject(e) /\ HasManifest /\ ~env_at_start[e]
           /\ pc[e] \notin {"idle", "rejected", "except"} /\ log_file[e] # <<>>) =>
            /\ (pc[e] \in {"blocked", "spawn"} /\ spawned[e] = <<>>)
                 => (step[e] \in {"sync", "venv"}
                     /\ command[e].argv[2] \in {"sync", "venv"}
                     /\ command[e].cwd = ProjectPath)
            /\ spawned[e] # <<>>
                 => (spawned[e][1].argv[2] \in {"sync", "venv"}
                     /\ spawned[e][1].cwd = ProjectPath)

\* two executions of the project both found no environment, and both have
\* spawned the preparation for the same path
C21_Witness ==
    \E e1, e2 \in Execs :
        /\ e1 # e2 /\ IsProject(e1) /\ IsProject(e2) /\ HasManifest
        /\ ~env_at_start[e1] /\ ~env_at_start[e2]
        /\ spawned[e1] # <<>> /\ spawned[e2] # <<>>
        /\ spawned[e1][1].argv[2] \in {"sync", "venv"}
        /\ spawned[e2][1].argv = spawned[e1][1].argv
        /\ spawned[e2][1].cwd = spawned[e1][1].cwd

\* a step of an execution that has been started, of a child, or of time
Progress ==
    \/ \E e \in Execs : Execute_Except(e) \/ Execute_Finish(e)
    \/ \E e \in Execs : RunCommand_Spawn(e) \/ RunCommand_WaitDone(e)
                          \/ RunCommand_Timeout(e) \/ RunCommand_GraceDone(e)
                          \/ RunCommand_GraceTimeout(e) \/ RunCommand_KillDone(e)
                          \/ RunCommand_Return(e)
    \/ \E e \in Execs : Child_Ends(e)
    \/ Tick

\* C23: the slots taken are as many as the executions inside _run_command,
\* one each, so an execution holds one slot there and none elsewhere; an
\* execution waits for a slot only while all slots are taken by such calls;
\* and as long as an execution has been started and has not returned, a step
\* of a started execution, of a child or of time can be taken: no deadlock
C23_OneSlotPerCallNoDeadlock ==
    /\ sem_value >= 0 /\ sem_value <= MAX_CONCURRENT_PROCESSES
    /\ Cardinality(InRunCommand) + sem_value = MAX_CONCURRENT_PROCESSES
    /\ \A e \in Execs :
         pc[e] = "blocked" => (sem_value = 0 /\ InRunCommand # {}
                               /\ \E i \in 1..Len(waiters) : waiters[i] = e)
    /\ \A i, k \in 1..Len(waiters) : i # k => waiters[i] # waiters[k]
    /\ (\E e \in Execs : pc[e] \notin {"idle", "rejected", "done"}) => ENABLED Progress

\* an execution has gone through the preparation and the run of a project,
\* giving its slot to the waiting execution in between, and both have returned
C23_Witness ==
    \E e1, e2 \in Execs :
        /\ e1 # e2 /\ pc[e1] = "done" /\ pc[e2] = "done"
        /\ IsProject(e1) /\ Len(spawned[e1]) = 3 /\ spawned[e2] # <<>>
        /\ sem_value = MAX_CONCURRENT_PROCESSES

\* C24: in the log of an execution every output of a command's child comes
\* after the marker line the executor wrote for that command
C24_MarkerBeforeOutput ==
    \A e \in Execs :
        \A i \in 1..Len(log_file[e]) :
            (pc[e] \notin {"idle", "rejected"} /\ log_file[e][i][1] = "output") =>
                \E k \in 1..(i - 1) :
                    /\ log_file[e][k][1] \in {"Running command", "Preparing environment",
                                               "Installing requirements"}
                    /\ log_file[e][k][2] = log_file[e][i][2]

\* C22: a run command of a project with a manifest is spawned only when every
\* preparation step the project needs (sync; or venv and install) has ended
\* with 0, in this execution or in one before
C22_RunOnlyAfterCompletePreparation ==
    \A e \in Execs :
        (IsProject(e) /\ ~project_dir.is_file /\ HasManifest) =>
            \A i \in 1..Len(spawned[e]) :
                IsRun(spawned[e][i].argv) => RequiredSteps(project_dir) \subseteq completed

\* the rows a show command selects: all without --name and --id, else the
\* row of that name, else that of that id
ShownRows(c) ==
    IF c.job_id = 0 /\ c.name = NoneVal THEN registry
    ELSE IF c.name # NoneVal THEN {r \in registry : r.name = c.name}
    ELSE {r \in registry : r.id = c.job_id}

\* C25: after a show command, the details of every selected row have been
\* printed if there is one, and "not found" only if there is none
C25_ShowPrintsEveryMatch ==
    cli_call.command = "show" =>
        /\ \A r \in ShownRows(cli_call) :
             \E i \in 1..Len(echoed) : echoed[i] = <<"details", {r}>>
        /\ (\E i \in 1..Len(echoed) : echoed[i][1] = "not found")
             => ShownRows(cli_call) = {}

\* C26: an update changes, in the selected row, only fields whose option was
\* given, and no other row
C26_UpdateChangesOnlyGivenFields ==
    [][cli_call'.command = "update" =>
         \A r \in registry :
             \/ r \in registry'
             \/ /\ r \in UpdateSelection(registry, cli_call')
                /\ \E u \in registry' :
                     /\ u.id = r.id
                     /\ cli_call'.name = NoneVal => u.name = r.name
                     /\ cli_call'.path = NoneVal => u.path = r.path
                     /\ ~cli_call'.is_script => u.job_type = r.job_type
                     /\ cli_call'.dependencies = <<>> => u.dependencies = r.dependencies
                     /\ cli_call'.python_version = NoneVal
                          => u.python_version = r.python_version
                     /\ ~cli_call'.enabled_given => u.is_enabled = r.is_enabled
    ]_vars

====
